---------------------------- MODULE Spec2Model ----------------------------
(***************************************************************************)
(* EduLog (src/app.py): a Flask application over five SQL tables           *)
(* (Department, User, Meeting, Task, Schedule), flask-login sessions and a *)
(* per-session "notifications_cleared" flag.  Every route handler is one   *)
(* action; add_department, whose check and insert are two SQL statements,  *)
(* is split so that concurrent requests interleave between them.           *)
(***************************************************************************)
EXTENDS Integers, Sequences, FiniteSets, TLC

VARIABLES
    users,        \* User table:       id -> row
    depts,        \* Department table: id -> row
    tasks,        \* Task table:       id -> row
    schedules,    \* Schedule table:   id -> row
    meetings,     \* Meeting table:    id -> row
    session,      \* browser session (cookie): [user_id, notifications_cleared]
    today,        \* the day number datetime.now() falls on
    pending,      \* add_department requests between their SELECT and INSERT
    resp,         \* the response of the last request handled
    taskCreator,  \* history: the id of the user whose assign_task made the task
    everCompleted,\* history: tasks that update_status has set to 'Completed'
    done,         \* percentage calculator: number of completed / productive rows
    total,        \* percentage calculator: number of rows
    rate          \* percentage calculator: the integer percentage shown

vars == <<users, depts, tasks, schedules, meetings, session, today, pending,
          resp, taskCreator, everCompleted, done, total, rate>>

db == <<users, depts, tasks, schedules, meetings>>

pct == <<done, total, rate>>

history == <<taskCreator, everCompleted>>

----------------------------------------------------------------------------
(* Bounds of the model *)

MaxUsers == 2      \* largest User id
MaxDepts == 2      \* largest Department id
MaxTasks == 2      \* largest Task id
MaxScheds == 2     \* largest Schedule id
MaxMeetings == 2   \* largest Meeting id
MaxDay == 2        \* last day the clock reaches
MaxCount == 50     \* largest row count given to the percentage calculator

None == "None"

\* no user id in the session: the anonymous user
NoId == 0

\* SQL NULL in a text column
Null == <<"NULL">>

Sessions == {"s1", "s2"}

----------------------------------------------------------------------------
(* Tables: SQLite INTEGER PRIMARY KEY, a new row gets max(id) + 1 *)

MaxOf(S) == CHOOSE x \in S : \A y \in S : y <= x

NextId(t) == IF DOMAIN t = {} THEN 1 ELSE MaxOf(DOMAIN t) + 1

Insert(t, r) == [i \in DOMAIN t \cup {NextId(t)} |-> IF i \in DOMAIN t THEN t[i] ELSE r]

DeleteRows(t, S) == [i \in DOMAIN t \ S |-> t[i]]

EmptyTable == [i \in {} |-> None]

\* the ids of a set of rows in the order Query.all() returns them
RECURSIVE Sorted(_)
Sorted(ids) ==
    IF ids = {} THEN <<>>
    ELSE LET i == CHOOSE x \in ids : \A y \in ids : x <= y
         IN  <<i>> \o Sorted(ids \ {i})

\* Query.filter(...).all() on table t: the ids of the rows that satisfy Cond
Select(t, Cond(_)) == Sorted({i \in DOMAIN t : Cond(t[i])})

\* Query.filter_by(...).first()
First(t, Cond(_)) ==
    LET hit == Select(t, Cond) IN IF hit = <<>> THEN NoId ELSE hit[1]

----------------------------------------------------------------------------
(* Dates: strftime('%Y-%m-%d') writes fixed-width, zero-padded digits; the *)
(* code compares the resulting strings character by character.            *)

strftime(day) == <<day \div 10, day % 10>>

Today == strftime(today)

RECURSIVE StrLess(_, _)
StrLess(a, b) ==
    IF b = <<>> THEN FALSE
    ELSE IF a = <<>> THEN TRUE
    ELSE IF Head(a) # Head(b) THEN Head(a) < Head(b)
    ELSE StrLess(Tail(a), Tail(b))

StrGeq(a, b) == ~StrLess(a, b)

StrGreater(a, b) == StrLess(b, a)

----------------------------------------------------------------------------
(* flask-bcrypt, flask-login *)

generate_password_hash(p) == <<"bcrypt", p>>

check_password_hash(h, p) == h = generate_password_hash(p)

\* load_user: User.query.get(int(user_id))
load_user(user_id) == IF user_id \in DOMAIN users THEN user_id ELSE NoId

\* current_user of the request sent with session s (NoId: anonymous)
current_user(s) ==
    IF session[s].user_id = NoId THEN NoId ELSE load_user(session[s].user_id)

is_authenticated(s) == current_user(s) # NoId

CurrentUser(s) == users[current_user(s)]

Response(s, route, status, view) ==
    [sess |-> s, route |-> route, status |-> status, view |-> view]

\* @login_required: an anonymous request is redirected to the login view
login_required(s, route) ==
    /\ ~is_authenticated(s)
    /\ resp' = Response(s, route, 302, "login")
    /\ UNCHANGED <<db, session, today, pending, history, pct>>

----------------------------------------------------------------------------
(* Floating point: int((done/total)*100).  Python's int / int is the true  *)
(* quotient rounded once to a double (53-bit significand, round to nearest *)
(* even); the product with 100 is rounded again; int() truncates.  A       *)
(* double is <<bits, exp>>: the significand's 53 bits, most significant    *)
(* first, and the power of two that scales it.  Long division and the      *)
(* product work on limbs of the significand so that every intermediate     *)
(* number stays below 2^31.                                                *)

MantBits == 53

LimbBits == MantBits \div 3

LowBits == MantBits - 1 - 2 * LimbBits

\* v as width bits, most significant first
Bits(v, width) == [i \in 1..width |-> (v \div 2^(width - i)) % 2]

RECURSIVE BitsToInt(_)
BitsToInt(bits) ==
    IF bits = <<>> THEN 0
    ELSE 2 * BitsToInt(SubSeq(bits, 1, Len(bits) - 1)) + bits[Len(bits)]

\* the number of bits of v
BitLen(v) == Cardinality({w \in 0..30 : 2^w <= v})

\* the bits of bits + 1 (one bit longer when every bit is 1)
Incr(bits) ==
    LET zeros == {i \in 1..Len(bits) : bits[i] = 0}
    IN  IF zeros = {} THEN <<1>> \o [i \in 1..Len(bits) |-> 0]
        ELSE LET z == MaxOf(zeros)
             IN  [i \in 1..Len(bits) |->
                    IF i < z THEN bits[i] ELSE IF i = z THEN 1 ELSE 0]

\* round to nearest, ties to even: the kept bits, the first dropped bit and
\* whether anything below it is non-zero
RoundEven(kept, guard, sticky, exp) ==
    IF guard = 1 /\ (sticky \/ kept[Len(kept)] = 1)
    THEN LET up == Incr(kept)
         IN  IF Len(up) > Len(kept)
             THEN <<SubSeq(up, 1, Len(kept)), exp + 1>>
             ELSE <<up, exp>>
    ELSE <<kept, exp>>

\* the smallest j with k * 2^j >= n
RECURSIVE Normalise(_, _)
Normalise(k, n) == IF k >= n THEN 0 ELSE 1 + Normalise(2 * k, n)

\* one step of long division: the next w quotient bits and the remainder
DivStep(r, n, w) == <<(r * 2^w) \div n, (r * 2^w) % n>>

\* k / n for integers 0 < k <= n
TrueDiv(k, n) ==
    LET j  == Normalise(k, n)
        s1 == DivStep(k * 2^j - n, n, LimbBits)
        s2 == DivStep(s1[2], n, LimbBits)
        s3 == DivStep(s2[2], n, LowBits)
        s4 == DivStep(s3[2], n, 1)
        kept == <<1>> \o Bits(s1[1], LimbBits) \o Bits(s2[1], LimbBits)
                      \o Bits(s3[1], LowBits)
    IN  RoundEven(kept, s4[1], s4[2] # 0, 0 - j - (MantBits - 1))

\* the bits of bits * c for a small integer c
MulSmall(bits, c) ==
    LET n   == Len(bits)
        lo  == BitsToInt(SubSeq(bits, n - LimbBits + 1, n)) * c
        mid == BitsToInt(SubSeq(bits, n - 2 * LimbBits + 1, n - LimbBits)) * c
                 + lo \div 2^LimbBits
        hi  == BitsToInt(SubSeq(bits, 1, n - 2 * LimbBits)) * c
                 + mid \div 2^LimbBits
    IN  Bits(hi, BitLen(hi)) \o Bits(mid % 2^LimbBits, LimbBits)
                              \o Bits(lo % 2^LimbBits, LimbBits)

AnyOne(bits) == \E i \in 1..Len(bits) : bits[i] = 1

\* x * c for a double x and a small integer c (c is exact as a double)
FloatMul(x, c) ==
    LET prod == MulSmall(x[1], c)
        drop == Len(prod) - MantBits
    IN  IF drop <= 0 THEN <<prod, x[2]>>
        ELSE RoundEven(SubSeq(prod, 1, MantBits), prod[MantBits + 1],
                       AnyOne(SubSeq(prod, MantBits + 2, Len(prod))), x[2] + drop)

\* int(x) for a double 0 < x < 2^31: the bits left of the binary point
FloatToInt(x) ==
    LET keep == Len(x[1]) + x[2]
    IN  IF keep <= 0 THEN 0 ELSE BitsToInt(SubSeq(x[1], 1, keep))

\* int((k/n)*100) if n > 0 else 0
Percentage(k, n) ==
    IF n > 0
    THEN IF k = 0 THEN 0 ELSE FloatToInt(FloatMul(TrueDiv(k, n), 100))
    ELSE 0

----------------------------------------------------------------------------
(* inject_notifications: the alerts of a page rendered for session s *)

\* my_tasks without the status filter
OpenTasksOf_AnyStatus(s) ==
    Select(tasks, LAMBDA t : t.assignee = CurrentUser(s).username)

OpenTasksOf(s) ==
    Select(tasks, LAMBDA t : t.assignee = CurrentUser(s).username
                              /\ t.status # "Completed")

TaskAlerts(s) ==
    LET mine  == OpenTasksOf(s)
        shown == SelectSeq(mine, LAMBDA i : StrLess(tasks[i].deadline, Today)
                                             \/ tasks[i].deadline = Today)
    IN  [j \in 1..Len(shown) |->
            IF StrLess(tasks[shown[j]].deadline, Today)
            THEN <<"OVERDUE", tasks[shown[j]].title>>
            ELSE <<"DUE TODAY", tasks[shown[j]].title>>]

SchedulesFor(s) ==
    Select(schedules, LAMBDA x : x.target_dept = "All"
                                  \/ x.target_dept = CurrentUser(s).department)

ScheduleAlerts(s) ==
    LET mine  == SchedulesFor(s)
        shown == SelectSeq(mine, LAMBDA i : schedules[i].date = Today
                                             \/ StrGreater(schedules[i].date, Today))
    IN  [j \in 1..Len(shown) |->
            IF schedules[shown[j]].date = Today
            THEN <<"MEETING TODAY", schedules[shown[j]].title, schedules[shown[j]].time>>
            ELSE <<"UPCOMING", schedules[shown[j]].title, schedules[shown[j]].date>>]

inject_notifications(s) ==
    IF ~is_authenticated(s) THEN <<>>
    ELSE IF session[s].notifications_cleared THEN <<>>
    ELSE TaskAlerts(s) \o ScheduleAlerts(s)

----------------------------------------------------------------------------
(* Sessions *)

\* POST /login
login(s, username, password) ==
    LET user == First(users, LAMBDA u : u.username = username)
    IN  IF user # NoId /\ check_password_hash(users[user].password_hash, password)
        THEN /\ session' = [session EXCEPT ![s] =
                               [user_id |-> user, notifications_cleared |-> FALSE]]
             /\ resp' = Response(s, "login", 302,
                                 IF users[user].role = "Admin" THEN "admin_dashboard"
                                 ELSE IF users[user].role = "Leader" THEN "leader_dashboard"
                                 ELSE "employee_dashboard")
             /\ UNCHANGED <<db, today, pending, history, pct>>
        ELSE /\ resp' = Response(s, "login", 200, "login.html")
             /\ UNCHANGED <<db, session, today, pending, history, pct>>

\* logout that also empties the session
logout_ClearsSession(s) ==
    \/ login_required(s, "logout")
    \/ /\ is_authenticated(s)
       /\ session' = [session EXCEPT ![s] =
                         [user_id |-> NoId, notifications_cleared |-> FALSE]]
       /\ resp' = Response(s, "logout", 302, "login")
       /\ UNCHANGED <<db, today, pending, history, pct>>

\* GET /logout: logout_user() drops the user id and keeps the rest of the session
logout(s) ==
    \/ login_required(s, "logout")
    \/ /\ is_authenticated(s)
       /\ session' = [session EXCEPT ![s].user_id = NoId]
       /\ resp' = Response(s, "logout", 302, "login")
       /\ UNCHANGED <<db, today, pending, history, pct>>

\* GET /clear_notifications
clear_notifications(s) ==
    \/ login_required(s, "clear_notifications")
    \/ /\ is_authenticated(s)
       /\ session' = [session EXCEPT ![s].notifications_cleared = TRUE]
       /\ resp' = Response(s, "clear_notifications", 302, "referrer")
       /\ UNCHANGED <<db, today, pending, history, pct>>

----------------------------------------------------------------------------
(* Dashboards *)

\* the upcoming-schedule query without its 'All' clause
UpcomingSchedules_OwnDeptOnly(s) ==
    Select(schedules, LAMBDA x : x.target_dept = CurrentUser(s).department
                                  /\ StrGeq(x.date, Today))

\* the upcoming-schedule query of leader_dashboard and employee_dashboard
UpcomingSchedules(s) ==
    Select(schedules, LAMBDA x : (x.target_dept = "All"
                                   \/ x.target_dept = CurrentUser(s).department)
                                  /\ StrGeq(x.date, Today))

\* leader_dashboard's assigned_tasks
AssignedTasks(s) ==
    Select(tasks, LAMBDA t : t.assigner = CurrentUser(s).full_name)

\* leader_dashboard's analytics: total, done, rate
LeaderTotal(s) == Len(AssignedTasks(s))

LeaderDone(s) ==
    Len(SelectSeq(AssignedTasks(s), LAMBDA i : tasks[i].status = "Completed"))

LeaderRate(s) == Percentage(LeaderDone(s), LeaderTotal(s))

\* GET /leader_dashboard
leader_dashboard(s) ==
    \/ login_required(s, "leader_dashboard")
    \/ /\ is_authenticated(s)
       /\ resp' = IF CurrentUser(s).role \notin {"Leader", "Admin"}
                  THEN Response(s, "leader_dashboard", 403, "abort")
                  ELSE Response(s, "leader_dashboard", 200, "dashboard_leader.html")
       /\ UNCHANGED <<db, session, today, pending, history, pct>>

\* admin_dashboard with leader_dashboard's role test
admin_dashboard_LeaderToo(s) ==
    \/ login_required(s, "admin_dashboard")
    \/ /\ is_authenticated(s)
       /\ resp' = IF CurrentUser(s).role \notin {"Leader", "Admin"}
                  THEN Response(s, "admin_dashboard", 302, "employee_dashboard")
                  ELSE Response(s, "admin_dashboard", 200, "dashboard_admin.html")
       /\ UNCHANGED <<db, session, today, pending, history, pct>>

\* GET /admin_dashboard
admin_dashboard(s) ==
    \/ login_required(s, "admin_dashboard")
    \/ /\ is_authenticated(s)
       /\ resp' = IF CurrentUser(s).role # "Admin"
                  THEN Response(s, "admin_dashboard", 302, "employee_dashboard")
                  ELSE Response(s, "admin_dashboard", 200, "dashboard_admin.html")
       /\ UNCHANGED <<db, session, today, pending, history, pct>>

\* GET /employee_dashboard
employee_dashboard(s) ==
    \/ login_required(s, "employee_dashboard")
    \/ /\ is_authenticated(s)
       /\ resp' = Response(s, "employee_dashboard", 200, "dashboard_employee.html")
       /\ UNCHANGED <<db, session, today, pending, history, pct>>

----------------------------------------------------------------------------
(* Schedules, tasks *)

\* POST /schedule_meeting
schedule_meeting(s, title, target_dept, date, time) ==
    \/ login_required(s, "schedule_meeting")
    \/ /\ is_authenticated(s)
       /\ NextId(schedules) <= MaxScheds
       /\ schedules' = Insert(schedules,
              [title |-> title, target_dept |-> target_dept, date |-> date,
               time |-> time, created_by |-> CurrentUser(s).full_name])
       /\ resp' = Response(s, "schedule_meeting", 302, "referrer")
       /\ UNCHANGED <<users, depts, tasks, meetings, session, today, pending,
                      history, pct>>

\* POST /assign_task
assign_task(s, title, assignee, deadline) ==
    \/ login_required(s, "assign_task")
    \/ /\ is_authenticated(s)
       /\ NextId(tasks) <= MaxTasks
       /\ LET a == First(users, LAMBDA u : u.username = assignee)
          IN  tasks' = Insert(tasks,
                  [title |-> title, description |-> "",
                   assigner |-> CurrentUser(s).full_name, assignee |-> assignee,
                   department |-> IF a # NoId THEN users[a].department ELSE "General",
                   deadline |-> deadline, status |-> "Pending",
                   completion_date |-> Null])
       /\ taskCreator' = Insert(taskCreator, current_user(s))
       /\ resp' = Response(s, "assign_task", 302, "referrer")
       /\ UNCHANGED <<users, depts, schedules, meetings, session, today, pending,
                      everCompleted, pct>>

\* POST /delete_task/<id>
delete_task(s, id) ==
    \/ login_required(s, "delete_task")
    \/ /\ is_authenticated(s)
       /\ IF id \notin DOMAIN tasks
          THEN /\ resp' = Response(s, "delete_task", 404, "abort")
               /\ UNCHANGED <<tasks, history>>
          ELSE /\ tasks' = DeleteRows(tasks, {id})
               /\ taskCreator' = DeleteRows(taskCreator, {id})
               /\ everCompleted' = everCompleted \ {id}
               /\ resp' = Response(s, "delete_task", 302, "referrer")
       /\ UNCHANGED <<users, depts, schedules, meetings, session, today, pending, pct>>

\* POST /clear_leader_tasks
clear_leader_tasks(s) ==
    \/ login_required(s, "clear_leader_tasks")
    \/ /\ is_authenticated(s)
       /\ LET gone == {i \in DOMAIN tasks : tasks[i].assigner = CurrentUser(s).full_name}
          IN  /\ tasks' = DeleteRows(tasks, gone)
              /\ taskCreator' = DeleteRows(taskCreator, gone)
              /\ everCompleted' = everCompleted \ gone
       /\ resp' = Response(s, "clear_leader_tasks", 302, "referrer")
       /\ UNCHANGED <<users, depts, schedules, meetings, session, today, pending, pct>>

\* update_status that drops the completion date of a task that is reopened
update_status_ClearsDate(s, id, new_status) ==
    \/ login_required(s, "update_status")
    \/ /\ is_authenticated(s)
       /\ IF id \notin DOMAIN tasks
          THEN /\ resp' = Response(s, "update_status", 404, "abort")
               /\ UNCHANGED <<tasks, everCompleted>>
          ELSE /\ tasks' = [tasks EXCEPT
                    ![id].status = new_status,
                    ![id].completion_date =
                        IF new_status = "Completed" THEN Today ELSE Null]
               /\ everCompleted' = IF new_status = "Completed"
                                   THEN everCompleted \cup {id} ELSE everCompleted
               /\ resp' = Response(s, "update_status", 302, "referrer")
       /\ UNCHANGED <<users, depts, schedules, meetings, session, today, pending,
                      taskCreator, pct>>

\* GET /update_status/<id>/<new_status>
update_status(s, id, new_status) ==
    \/ login_required(s, "update_status")
    \/ /\ is_authenticated(s)
       /\ IF id \notin DOMAIN tasks
          THEN /\ resp' = Response(s, "update_status", 404, "abort")
               /\ UNCHANGED <<tasks, everCompleted>>
          ELSE /\ tasks' = [tasks EXCEPT
                    ![id].status = new_status,
                    ![id].completion_date =
                        IF new_status = "Completed" THEN Today ELSE @]
               /\ everCompleted' = IF new_status = "Completed"
                                   THEN everCompleted \cup {id} ELSE everCompleted
               /\ resp' = Response(s, "update_status", 302, "referrer")
       /\ UNCHANGED <<users, depts, schedules, meetings, session, today, pending,
                      taskCreator, pct>>

----------------------------------------------------------------------------
(* Staff and departments *)

\* the UNIQUE constraint on user.username, checked by the database at commit
UsernameFree(username) == \A i \in DOMAIN users : users[i].username # username

\* department.name without its UNIQUE constraint
DeptNameFree_NoConstraint(name) == TRUE

\* the UNIQUE constraint on department.name, checked by the database at commit
DeptNameFree(name) == \A i \in DOMAIN depts : depts[i].name # name

\* POST /manage_staff
manage_staff(s, username, password, fullname, role, designation, department) ==
    \/ login_required(s, "manage_staff")
    \/ /\ is_authenticated(s)
       /\ CurrentUser(s).role # "Admin"
       /\ resp' = Response(s, "manage_staff", 403, "abort")
       /\ UNCHANGED <<db, session, today, pending, history, pct>>
    \/ /\ is_authenticated(s)
       /\ CurrentUser(s).role = "Admin"
       /\ UsernameFree(username) => NextId(users) <= MaxUsers
       /\ IF UsernameFree(username)
          THEN users' = Insert(users,
                  [username |-> username,
                   password_hash |-> generate_password_hash(
                        IF password # "" THEN password ELSE "welcome123"),
                   full_name |-> fullname, role |-> role,
                   department |-> department, designation |-> designation])
          ELSE UNCHANGED users     \* except: pass
       /\ resp' = Response(s, "manage_staff", 200, "manage_staff.html")
       /\ UNCHANGED <<depts, tasks, schedules, meetings, session, today, pending,
                      history, pct>>

\* POST /edit_user/<id>
edit_user(s, id, fullname, role, department) ==
    \/ login_required(s, "edit_user")
    \/ /\ is_authenticated(s)
       /\ IF id \notin DOMAIN users
          THEN /\ resp' = Response(s, "edit_user", 404, "abort")
               /\ UNCHANGED users
          ELSE /\ users' = [users EXCEPT ![id].full_name = fullname,
                                         ![id].role = role,
                                         ![id].department = department]
               /\ resp' = Response(s, "edit_user", 302, "manage_staff")
       /\ UNCHANGED <<depts, tasks, schedules, meetings, session, today, pending,
                      history, pct>>

\* delete_user without the test against current_user.id
delete_user_NoSelfCheck(s, id) ==
    \/ login_required(s, "delete_user")
    \/ /\ is_authenticated(s)
       /\ IF id \notin DOMAIN users
          THEN /\ resp' = Response(s, "delete_user", 404, "abort")
               /\ UNCHANGED users
          ELSE /\ users' = DeleteRows(users, {id})
               /\ resp' = Response(s, "delete_user", 302, "manage_staff")
       /\ UNCHANGED <<depts, tasks, schedules, meetings, session, today, pending,
                      history, pct>>

\* POST /delete_user/<id>
delete_user(s, id) ==
    \/ login_required(s, "delete_user")
    \/ /\ is_authenticated(s)
       /\ IF id \notin DOMAIN users
          THEN /\ resp' = Response(s, "delete_user", 404, "abort")
               /\ UNCHANGED users
          ELSE /\ users' = IF id # current_user(s)
                           THEN DeleteRows(users, {id}) ELSE users
               /\ resp' = Response(s, "delete_user", 302, "manage_staff")
       /\ UNCHANGED <<depts, tasks, schedules, meetings, session, today, pending,
                      history, pct>>

\* POST /add_department, up to its SELECT: a request that found no department of
\* that name goes on to its INSERT, and other requests run in between
add_department(s, dept_name) ==
    \/ login_required(s, "add_department")
    \/ /\ is_authenticated(s)
       /\ CurrentUser(s).role # "Admin"
       /\ resp' = Response(s, "add_department", 403, "abort")
       /\ UNCHANGED <<db, session, today, pending, history, pct>>
    \/ /\ is_authenticated(s)
       /\ CurrentUser(s).role = "Admin"
       /\ IF First(depts, LAMBDA d : d.name = dept_name) = NoId
          THEN /\ pending' = pending \cup {[sess |-> s, dept_name |-> dept_name]}
               /\ UNCHANGED resp
          ELSE /\ resp' = Response(s, "add_department", 302, "manage_staff")
               /\ UNCHANGED pending
       /\ UNCHANGED <<db, session, today, history, pct>>

\* POST /add_department, its INSERT and commit: the database refuses a name that
\* another request has inserted meanwhile, and the request ends in an error
add_department_commit(p) ==
    /\ p \in pending
    /\ pending' = pending \ {p}
    /\ IF DeptNameFree(p.dept_name)
       THEN /\ NextId(depts) <= MaxDepts
            /\ depts' = Insert(depts, [name |-> p.dept_name])
            /\ resp' = Response(p.sess, "add_department", 302, "manage_staff")
       ELSE /\ UNCHANGED depts
            /\ resp' = Response(p.sess, "add_department", 500, "IntegrityError")
    /\ UNCHANGED <<users, tasks, schedules, meetings, session, today, history, pct>>

----------------------------------------------------------------------------
(* Meetings and analytics.  Text is a sequence of characters. *)

RECURSIVE Join(_, _)
Join(list, sep) ==
    IF list = <<>> THEN <<>>
    ELSE IF Len(list) = 1 THEN list[1]
    ELSE list[1] \o sep \o Join(Tail(list), sep)

\* text.split(sep) for a separator of one character
RECURSIVE Split(_, _)
Split(text, sep) ==
    LET at == {i \in 1..Len(text) : text[i] = sep}
    IN  IF at = {} THEN <<text>>
        ELSE LET i == CHOOSE x \in at : \A y \in at : x <= y
             IN  <<SubSeq(text, 1, i - 1)>> \o Split(SubSeq(text, i + 1, Len(text)), sep)

\* text.strip()
Strip(text) ==
    LET ink == {i \in 1..Len(text) : text[i] # " "}
    IN  IF ink = {} THEN <<>>
        ELSE SubSeq(text, CHOOSE x \in ink : \A y \in ink : x <= y, MaxOf(ink))

\* text.startswith(prefix), the LIKE 'prefix%' of the month filter
StartsWith(text, prefix) ==
    Len(prefix) <= Len(text) /\ SubSeq(text, 1, Len(prefix)) = prefix

\* POST /log_meeting
log_meeting(s, date, department, attendees, absentees, productive) ==
    \/ login_required(s, "log_meeting")
    \/ /\ is_authenticated(s)
       /\ NextId(meetings) <= MaxMeetings
       /\ meetings' = Insert(meetings,
              [date_of_meeting |-> date, department |-> department,
               attendees |-> Join(attendees, <<",", " ">>),
               absentees |-> Join(absentees, <<",", " ">>),
               productive |-> productive])
       /\ resp' = Response(s, "log_meeting", 302, "log_meeting")
       /\ UNCHANGED <<users, depts, tasks, schedules, session, today, pending,
                      history, pct>>

\* POST /clear_data
clear_data(s) ==
    \/ login_required(s, "clear_data")
    \/ /\ is_authenticated(s)
       /\ meetings' = EmptyTable
       /\ resp' = Response(s, "clear_data", 302, "admin_dashboard")
       /\ UNCHANGED <<users, depts, tasks, schedules, session, today, pending,
                      history, pct>>

\* meeting_analytics' query: the meetings of dept (or of "All") in month (if month is not empty)
FilteredMeetings(dept, month) ==
    Select(meetings, LAMBDA m : (dept # "All" => m.department = dept)
                                 /\ (month # <<>> => StartsWith(m.date_of_meeting, month)))

\* the count of the pieces without the test of x.strip()
AbsenteeCount_NoStrip(m) == Len(Split(m.absentees, ","))

\* len([x for x in m.absentees.split(',') if x.strip()])
AbsenteeCount(m) ==
    Len(SelectSeq(Split(m.absentees, ","), LAMBDA x : Strip(x) # <<>>))

\* absentee_counts after the loop over the first n meetings: a dict, that is
\* its items <<department, count>> in the order the keys were first set
RECURSIVE AbsenteeCounts(_, _)
AbsenteeCounts(list, n) ==
    IF n = 0 THEN <<>>
    ELSE LET before == AbsenteeCounts(list, n - 1)
             m      == meetings[list[n]]
             at     == {i \in 1..Len(before) : before[i][1] = m.department}
         IN  IF at = {}
             THEN Append(before, <<m.department, 0 + AbsenteeCount(m)>>)
             ELSE [i \in 1..Len(before) |->
                     IF i \in at THEN <<before[i][1], before[i][2] + AbsenteeCount(m)>>
                     ELSE before[i]]

\* sorted(items, key=lambda x: x[1]): a stable sort, by insertion
RECURSIVE SortedByCount(_)
SortedByCount(items) ==
    IF items = <<>> THEN <<>>
    ELSE LET front == SortedByCount(SubSeq(items, 1, Len(items) - 1))
             x     == items[Len(items)]
             keep  == Cardinality({i \in 1..Len(front) : front[i][2] <= x[2]})
         IN  SubSeq(front, 1, keep) \o <<x>> \o SubSeq(front, keep + 1, Len(front))

\* meeting_analytics' kpi
TotalLogs(dept, month) == Len(FilteredMeetings(dept, month))

Productive(dept, month) ==
    Len(SelectSeq(FilteredMeetings(dept, month),
                  LAMBDA i : meetings[i].productive = "Yes"))

Efficiency(dept, month) == Percentage(Productive(dept, month), TotalLogs(dept, month))

BestAttendance(dept, month) ==
    LET list == FilteredMeetings(dept, month)
        sorted_absent == SortedByCount(AbsenteeCounts(list, Len(list)))
    IN  IF sorted_absent # <<>> THEN sorted_absent[1][1] ELSE "N/A"

\* GET /meeting_analytics
meeting_analytics(s) ==
    \/ login_required(s, "meeting_analytics")
    \/ /\ is_authenticated(s)
       /\ resp' = Response(s, "meeting_analytics", 200, "meeting_analytics.html")
       /\ UNCHANGED <<db, session, today, pending, history, pct>>

----------------------------------------------------------------------------
(* The clock, and the percentage on its own *)

Midnight ==
    /\ today < MaxDay
    /\ today' = today + 1
    /\ UNCHANGED <<db, session, pending, resp, history, pct>>

\* rate = int((done/total)*100) if total > 0 else 0
ShowRate ==
    /\ rate = -1
    /\ rate' = Percentage(done, total)
    /\ UNCHANGED <<db, session, today, pending, resp, history, done, total>>

----------------------------------------------------------------------------
(* The initial state: the tables db.create_all() makes, holding a row the   *)
(* existing database brings along (the application itself can add users     *)
(* only through an administrator, so a database in use has one); nobody is  *)
(* logged in.                                                               *)

Admin0 ==
    [username |-> "admin", password_hash |-> generate_password_hash("welcome123"),
     full_name |-> "N1", role |-> "Admin", department |-> "D1",
     designation |-> "Staff"]

\* no request has been made yet
NoRequests ==
    /\ session = [s \in Sessions |-> [user_id |-> NoId, notifications_cleared |-> FALSE]]
    /\ today = 1
    /\ pending = {}
    /\ resp = Response(None, None, 0, None)
    /\ taskCreator = EmptyTable
    /\ everCompleted = {}
    /\ done = 0
    /\ total = 0
    /\ rate = 0

Init ==
    /\ users = Insert(EmptyTable, Admin0)
    /\ depts = EmptyTable
    /\ tasks = EmptyTable
    /\ schedules = EmptyTable
    /\ meetings = EmptyTable
    /\ NoRequests

----------------------------------------------------------------------------
(* Access: logins, staff edits and the three dashboards *)

Usernames == {"admin", "u1"}

Passwords == {"welcome123", "wrong"}

Roles == {"Admin", "Leader", "Employee"}

UserIds == 1..(MaxUsers + 1)

Next ==
    \/ \E s \in Sessions, u \in Usernames, p \in Passwords : login(s, u, p)
    \/ \E s \in Sessions : logout(s)
    \/ \E s \in Sessions : leader_dashboard(s)
    \/ \E s \in Sessions : admin_dashboard(s)
    \/ \E s \in Sessions : employee_dashboard(s)
    \/ \E s \in Sessions, u \in Usernames, r \in Roles :
          manage_staff(s, u, "", "N1", r, "Staff", "D1")
    \/ \E s \in Sessions, i \in UserIds, r \in Roles : edit_user(s, i, "N1", r, "D1")
    \/ \E s \in Sessions, i \in UserIds : delete_user(s, i)

Spec == Init /\ [][Next]_vars

\* the request just answered: the step wrote a new response for this route
Answered(route) == resp' # resp /\ resp'.route = route

RoleOf(s) == CurrentUser(s).role

\* C6: admin_dashboard renders the admin view only for a user whose current role
\* is 'Admin' and otherwise redirects to the employee dashboard;
\* leader_dashboard renders only for the current roles 'Leader' and 'Admin' and
\* otherwise aborts with 403; employee_dashboard renders for every authenticated
\* user; none of the three changes a stored record.
C6_DashboardAccess ==
    [][/\ Answered("admin_dashboard") =>
            /\ UNCHANGED <<db, session>>
            /\ is_authenticated(resp'.sess) =>
                  IF RoleOf(resp'.sess) = "Admin"
                  THEN resp'.status = 200 /\ resp'.view = "dashboard_admin.html"
                  ELSE resp'.status = 302 /\ resp'.view = "employee_dashboard"
            /\ resp'.view = "dashboard_admin.html" => is_authenticated(resp'.sess)
       /\ Answered("leader_dashboard") =>
            /\ UNCHANGED <<db, session>>
            /\ is_authenticated(resp'.sess) =>
                  IF RoleOf(resp'.sess) \in {"Leader", "Admin"}
                  THEN resp'.status = 200 /\ resp'.view = "dashboard_leader.html"
                  ELSE resp'.status = 403
            /\ resp'.view = "dashboard_leader.html" => is_authenticated(resp'.sess)
       /\ Answered("employee_dashboard") =>
            /\ UNCHANGED <<db, session>>
            /\ is_authenticated(resp'.sess) <=>
                  resp'.status = 200 /\ resp'.view = "dashboard_employee.html"
      ]_vars

\* C6's case: the seeded administrator, whose role an edit has lowered since, asks
\* for the admin dashboard and is sent to the employee dashboard
C6_Witness ==
    /\ resp.route = "admin_dashboard"
    /\ resp.view = "employee_dashboard"
    /\ is_authenticated(resp.sess)
    /\ CurrentUser(resp.sess).username = "admin"

----------------------------------------------------------------------------
(* Uniqueness: staff and departments under concurrent administrators *)

DeptNames == {"D1", "D2"}

NextDept ==
    \/ \E s \in Sessions, u \in Usernames : login(s, u, "welcome123")
    \/ \E s \in Sessions, u \in Usernames, r \in {"Admin", "Employee"} :
          manage_staff(s, u, "", "N1", r, "Staff", "D1")
    \/ \E s \in Sessions, i \in UserIds, r \in {"Admin", "Employee"} :
          edit_user(s, i, "N1", r, "D1")
    \/ \E s \in Sessions, i \in UserIds : delete_user(s, i)
    \/ \E s \in Sessions, d \in DeptNames : add_department(s, d)
    \/ \E p \in pending : add_department_commit(p)

SpecDept == Init /\ [][NextDept]_vars

UniqueUsernames ==
    \A i, j \in DOMAIN users : users[i].username = users[j].username => i = j

UniqueDeptNames ==
    \A i, j \in DOMAIN depts : depts[i].name = depts[j].name => i = j

\* C7: no two User rows share a username and no two Department rows share a name,
\* whatever the interleaving of manage_staff, edit_user, delete_user and
\* add_department requests; a manage_staff POST with a used username, and an
\* add_department POST with a used name, leave both tables unchanged.
C7_Unique ==
    /\ [](UniqueUsernames /\ UniqueDeptNames)
    /\ [][<<users, depts>>' # <<users, depts>> =>
            /\ \A s \in Sessions, u \in Usernames, r \in Roles :
                 ~(~UsernameFree(u) /\ manage_staff(s, u, "", "N1", r, "Staff", "D1"))
            /\ \A s \in Sessions, d \in DeptNames :
                 ~(~DeptNameFree(d) /\ add_department(s, d))
            /\ \A p \in pending :
                 ~(~DeptNameFree(p.dept_name) /\ add_department_commit(p))
         ]_vars

\* C7's case: two add_department requests for one name ran concurrently, and the
\* database refused the second INSERT
C7_Witness ==
    /\ resp.route = "add_department"
    /\ resp.status = 500
    /\ \E i \in DOMAIN depts : TRUE

----------------------------------------------------------------------------
(* Ownership: who may delete whom, and whose tasks a clear removes *)

FullNames == {"N1", "N2"}

\* a database in use: a department, a scheduled meeting and a logged meeting
\* are stored already
InitOwn ==
    /\ users = Insert(EmptyTable, Admin0)
    /\ depts = Insert(EmptyTable, [name |-> "D1"])
    /\ tasks = EmptyTable
    /\ schedules = Insert(EmptyTable,
          [title |-> "M1", target_dept |-> "All", date |-> strftime(1),
           time |-> "10:00", created_by |-> "N1"])
    /\ meetings = Insert(EmptyTable,
          [date_of_meeting |-> strftime(1), department |-> "D1",
           attendees |-> <<>>, absentees |-> <<>>, productive |-> "Yes"])
    /\ NoRequests

NextOwn ==
    \/ \E s \in Sessions, u \in Usernames : login(s, u, "welcome123")
    \/ \E s \in Sessions, f \in FullNames :
          manage_staff(s, "u1", "", f, "Leader", "Staff", "D1")
    \/ \E s \in Sessions, i \in UserIds, f \in FullNames :
          edit_user(s, i, f, "Leader", "D1")
    \/ \E s \in Sessions, i \in UserIds : delete_user(s, i)
    \/ \E s \in Sessions : assign_task(s, "T1", "u1", strftime(1))
    \/ \E s \in Sessions : clear_leader_tasks(s)

SpecOwn == InitOwn /\ [][NextOwn]_vars

\* C2: delete_user(i) by the authenticated user c leaves the User table as it is
\* when i is c's own id; when i is another existing user it removes that one row
\* and leaves every other User row and every Task, Meeting, Schedule and
\* Department row unchanged.
C2_DeleteUser ==
    [][resp'.route = "delete_user" =>
         \A s \in Sessions, i \in UserIds :
            is_authenticated(s) /\ delete_user(s, i) =>
               /\ i = current_user(s) => users' = users
               /\ i \in DOMAIN users /\ i # current_user(s) =>
                     /\ DOMAIN users' = DOMAIN users \ {i}
                     /\ \A j \in DOMAIN users' : users'[j] = users[j]
               /\ UNCHANGED <<tasks, meetings, schedules, depts>>
      ]_vars

\* C2's case: a user other than the requester has been deleted while a task that
\* user created is still stored
C2_Witness ==
    /\ resp.route = "delete_user"
    /\ resp.status = 302
    /\ is_authenticated(resp.sess)
    /\ \E t \in DOMAIN tasks : taskCreator[t] \notin DOMAIN users
    /\ DOMAIN meetings # {} /\ DOMAIN schedules # {}

\* C10: clear_leader_tasks by the authenticated user L deletes every task that L
\* created through assign_task and no other, and leaves the User, Meeting,
\* Schedule and Department rows unchanged.
C10_ClearOwnTasks ==
    [][resp'.route = "clear_leader_tasks" =>
         \A s \in Sessions :
            is_authenticated(s) /\ clear_leader_tasks(s) =>
               /\ DOMAIN tasks' = {t \in DOMAIN tasks : taskCreator[t] # current_user(s)}
               /\ \A t \in DOMAIN tasks' : tasks'[t] = tasks[t]
               /\ UNCHANGED <<users, meetings, schedules, depts>>
      ]_vars

----------------------------------------------------------------------------
(* Tasks and notifications *)

Titles == {"T1", "T2"}

Statuses == {"Pending", "Completed", "completed"}

TaskIds == 1..(MaxTasks + 1)

NextTasks ==
    \/ login("s1", "admin", "welcome123")
    \/ clear_notifications("s1")
    \/ employee_dashboard("s1")
    \/ \E t \in Titles, u \in Usernames : assign_task("s1", t, u, strftime(1))
    \/ \E i \in TaskIds, st \in Statuses : update_status("s1", i, st)
    \/ \E i \in TaskIds : delete_task("s1", i)
    \/ Midnight

SpecTasks == Init /\ [][NextTasks]_vars

\* two browser sessions of one user
NextFlag ==
    \/ \E s \in Sessions, p \in Passwords : login(s, "admin", p)
    \/ \E s \in Sessions : logout(s)
    \/ \E s \in Sessions : clear_notifications(s)
    \/ \E s \in Sessions : employee_dashboard(s)
    \/ assign_task("s1", "T1", "admin", strftime(1))
    \/ \E i \in TaskIds : update_status("s1", i, "Completed")
    \/ schedule_meeting("s1", "M1", "All", strftime(MaxDay), "10:00")
    \/ Midnight

SpecFlag == Init /\ [][NextFlag]_vars

Range(seq) == {seq[i] : i \in 1..Len(seq)}

\* task t is assigned to the user of session s, is not Completed and is past its
\* deadline
Overdue(s, t) ==
    /\ tasks[t].assignee = CurrentUser(s).username
    /\ tasks[t].status # "Completed"
    /\ StrLess(tasks[t].deadline, Today)

\* C1 as stated: every task that is not Completed and past its deadline has its
\* OVERDUE entry in the notification list of a page rendered for its assignee,
\* and a task that update_status has set to Completed has none in any later list.
C1_Original ==
    /\ \A s \in Sessions : is_authenticated(s) =>
          \A t \in DOMAIN tasks :
             Overdue(s, t) =>
                <<"OVERDUE", tasks[t].title>> \in Range(inject_notifications(s))
    /\ \A s \in Sessions : is_authenticated(s) =>
          \A t \in everCompleted :
             tasks[t].assignee = CurrentUser(s).username =>
                <<"OVERDUE", tasks[t].title>> \notin Range(inject_notifications(s))

\* C1 (amended): in a session whose notifications_cleared flag is not set, every
\* task that is not Completed and past its deadline has its OVERDUE entry in the
\* list rendered for its assignee; and every OVERDUE entry of a list is the title
\* of such a task, so that a task contributes none while its status is Completed.
C1_Overdue ==
    \A s \in Sessions : is_authenticated(s) =>
       /\ ~session[s].notifications_cleared =>
             \A t \in DOMAIN tasks :
                Overdue(s, t) =>
                   <<"OVERDUE", tasks[t].title>> \in Range(inject_notifications(s))
       /\ \A e \in Range(inject_notifications(s)) :
             e[1] = "OVERDUE" =>
                \E t \in DOMAIN tasks : Overdue(s, t) /\ tasks[t].title = e[2]

\* C1's case: a rendered page of the assignee lists one overdue task while another
\* overdue task, which update_status has set to Completed, is not listed
C1_Witness ==
    \E s \in Sessions, t1, t2 \in DOMAIN tasks :
       /\ is_authenticated(s) /\ ~session[s].notifications_cleared
       /\ resp = Response(s, "employee_dashboard", 200, "dashboard_employee.html")
       /\ Overdue(s, t1)
       /\ t2 \in everCompleted /\ tasks[t2].status = "Completed"
       /\ StrLess(tasks[t2].deadline, Today)
       /\ tasks[t2].title # tasks[t1].title
       /\ inject_notifications(s) = << <<"OVERDUE", tasks[t1].title>> >>

\* one user's tasks: assigned, set to any status on any day, deleted
NextStatus ==
    \/ login("s1", "admin", "welcome123")
    \/ assign_task("s1", "T1", "admin", strftime(1))
    \/ \E i \in TaskIds, st \in Statuses : update_status("s1", i, st)
    \/ \E i \in TaskIds : delete_task("s1", i)
    \/ Midnight

SpecStatus == Init /\ [][NextStatus]_vars

\* C8: update_status(id, s) on a stored task sets its status to s, sets its
\* completion_date to today exactly when s is 'Completed' and otherwise leaves it,
\* and changes no other field and no other row; for an id without a task it ends
\* in 404 and changes nothing.
C8_UpdateStatus ==
    [][resp'.route = "update_status" =>
         \A s \in Sessions, i \in TaskIds, st \in Statuses :
            is_authenticated(s) /\ update_status(s, i, st) =>
               IF i \in DOMAIN tasks
               THEN /\ DOMAIN tasks' = DOMAIN tasks
                    /\ tasks'[i].status = st
                    /\ tasks'[i].completion_date =
                          IF st = "Completed" THEN Today ELSE tasks[i].completion_date
                    /\ \A f \in {"title", "description", "assigner", "assignee",
                                 "department", "deadline"} : tasks'[i][f] = tasks[i][f]
                    /\ \A j \in DOMAIN tasks \ {i} : tasks'[j] = tasks[j]
                    /\ UNCHANGED <<users, depts, schedules, meetings>>
               ELSE resp'.status = 404 /\ UNCHANGED db
      ]_vars

\* C8's case: a task stamped on an earlier day has been set to a status other than
\* 'Completed' and keeps its completion date
C8_Witness ==
    /\ resp.route = "update_status"
    /\ resp.status = 302
    /\ \E t \in DOMAIN tasks :
          /\ tasks[t].status = "completed"
          /\ tasks[t].completion_date # Null
          /\ tasks[t].completion_date # Today

\* C9: once clear_notifications has set a session's flag, every page rendered in
\* that session has an empty notification list until a successful login in that
\* session resets the flag; a failed login and a logout do not reset it; and a
\* request of one session never changes another session's flag.
C9_ClearedFlag ==
    /\ [](\A s \in Sessions :
             session[s].notifications_cleared => inject_notifications(s) = <<>>)
    /\ [][\A s \in Sessions :
             /\ session[s].notifications_cleared /\ ~session'[s].notifications_cleared
                   => resp' = Response(s, "login", 302, resp'.view)
             /\ (resp' # resp /\ resp' = Response(s, "login", 302, resp'.view))
                   => ~session'[s].notifications_cleared
             /\ (resp' # resp /\ resp' = Response(s, "clear_notifications", 302, "referrer"))
                   => session'[s].notifications_cleared
             /\ session'[s] # session[s] => resp'.sess = s
         ]_vars

\* C9's case: two sessions of one user, both past a page render with an overdue
\* task: the one that cleared its notifications shows none, the other shows them
C9_Witness ==
    \E s1, s2 \in Sessions :
       /\ is_authenticated(s1) /\ is_authenticated(s2)
       /\ current_user(s1) = current_user(s2)
       /\ session[s1].notifications_cleared /\ ~session[s2].notifications_cleared
       /\ inject_notifications(s1) = <<>>
       /\ inject_notifications(s2) # <<>>
       /\ \E t \in DOMAIN tasks : Overdue(s1, t)
       /\ resp.route = "employee_dashboard"

----------------------------------------------------------------------------
(* Upcoming schedules on the dashboards *)

NextSched ==
    \/ \E u \in Usernames : login("s1", u, "welcome123")
    \/ \E d \in DeptNames : manage_staff("s1", "u1", "", "N1", "Leader", "Staff", d)
    \/ \E i \in UserIds, r \in {"Leader", "Employee"}, d \in DeptNames :
          edit_user("s1", i, "N1", r, d)
    \/ \E t \in {"All"} \cup DeptNames, d \in 1..MaxDay :
          schedule_meeting("s1", "M1", t, strftime(d), "10:00")
    \/ employee_dashboard("s1")
    \/ leader_dashboard("s1")
    \/ Midnight

SpecSched == Init /\ [][NextSched]_vars

\* the days from today on
DaysAhead == {d \in 1..MaxDay : d >= today}

\* C3: a schedule dated today or later whose target is 'All' is in the
\* upcoming-schedule list of every authenticated user's dashboard; one whose
\* target is a department name is in the list exactly of the users whose
\* current department is that one.
C3_UpcomingSchedules ==
    \A s \in Sessions : is_authenticated(s) =>
       \A i \in DOMAIN schedules :
          (\E d \in DaysAhead : schedules[i].date = strftime(d)) =>
             IF schedules[i].target_dept = "All"
             THEN i \in Range(UpcomingSchedules(s))
             ELSE i \in Range(UpcomingSchedules(s))
                     <=> CurrentUser(s).department = schedules[i].target_dept

\* C3's case: a leader dashboard rendered for a user of department D2, with an
\* upcoming schedule for everybody, which is listed, and one for D1, which is not
C3_Witness ==
    \E s \in Sessions, i, j \in DOMAIN schedules :
       /\ resp = Response(s, "leader_dashboard", 200, "dashboard_leader.html")
       /\ is_authenticated(s)
       /\ CurrentUser(s).department = "D2"
       /\ today > 1
       /\ schedules[i].target_dept = "All" /\ schedules[j].target_dept = "D1"
       /\ schedules[i].date = Today /\ schedules[j].date = Today
       /\ UpcomingSchedules(s) = <<i>>

----------------------------------------------------------------------------
(* Meeting analytics *)

NameJ == <<"J", ".", " ", "D">>

NameM == <<"M">>

Blank == <<" ">>

\* what the form's Absentees list may hold
AbsenteeLists == {<<>>, <<NameM>>, <<NameJ, NameM>>, <<Blank>>}

MeetingDepts == {"A", "B"}

Months == {<<>>, <<0>>, <<1>>}

NextAnalytics ==
    \/ login("s1", "admin", "welcome123")
    \/ \E d \in MeetingDepts, a \in AbsenteeLists, m \in {1, 10}, p \in {"Yes", "No"} :
          log_meeting("s1", strftime(m), d, <<NameM>>, a, p)
    \/ clear_data("s1")
    \/ meeting_analytics("s1")

SpecAnalytics == Init /\ [][NextAnalytics]_vars

\* the absentee tokens of a text: the pieces between commas that hold a
\* character other than a blank, counted by their first such character
Tokens(text) ==
    Cardinality({i \in 1..Len(text) :
        /\ text[i] \notin {",", " "}
        /\ \A j \in 1..(i - 1) :
              text[j] \notin {",", " "} => \E k \in (j + 1)..(i - 1) : text[k] = ","})

\* the absentee tokens of department d over the meetings list[1..n]
RECURSIVE DeptTokens(_, _, _)
DeptTokens(list, d, n) ==
    IF n = 0 THEN 0
    ELSE DeptTokens(list, d, n - 1)
           + (IF meetings[list[n]].department = d
              THEN Tokens(meetings[list[n]].absentees) ELSE 0)

\* the place of department d's first meeting in the list
FirstAt(list, d) ==
    CHOOSE k \in 1..Len(list) :
       /\ meetings[list[k]].department = d
       /\ \A j \in 1..(k - 1) : meetings[list[j]].department # d

\* C5: the best-attendance department has a filtered meeting and the fewest
\* absentee tokens among the departments that have one; among departments with
\* that minimum it is the one whose first meeting is earliest in the filtered
\* list; for an empty list the result is 'N/A'.
C5_BestAttendance ==
    \A dept \in {"All"} \cup MeetingDepts, month \in Months :
       LET list  == FilteredMeetings(dept, month)
           best  == BestAttendance(dept, month)
           there == {meetings[list[k]].department : k \in 1..Len(list)}
       IN  IF list = <<>> THEN best = "N/A"
           ELSE /\ best \in there
                /\ \A d \in there :
                      \/ DeptTokens(list, best, Len(list)) < DeptTokens(list, d, Len(list))
                      \/ /\ DeptTokens(list, best, Len(list)) = DeptTokens(list, d, Len(list))
                         /\ FirstAt(list, best) <= FirstAt(list, d)

\* C5's case: department A's meeting with absentees 'J. D, M' comes first and
\* department B's with no absentee second, and the analytics page names B
C5_Witness ==
    /\ resp.route = "meeting_analytics" /\ resp.status = 200
    /\ DOMAIN meetings = {1, 2}
    /\ meetings[1].department = "A"
    /\ meetings[1].absentees = <<"J", ".", " ", "D", ",", " ", "M">>
    /\ meetings[2].department = "B" /\ meetings[2].absentees = <<>>
    /\ AbsenteeCount(meetings[1]) = 2
    /\ BestAttendance("All", <<>>) = "B"

----------------------------------------------------------------------------
(* The percentage on its own, for every pair of counts *)

InitPct ==
    /\ users = Insert(EmptyTable, Admin0)
    /\ depts = EmptyTable
    /\ tasks = EmptyTable
    /\ schedules = EmptyTable
    /\ meetings = EmptyTable
    /\ session = [s \in Sessions |-> [user_id |-> NoId, notifications_cleared |-> FALSE]]
    /\ today = 1
    /\ pending = {}
    /\ resp = Response(None, None, 0, None)
    /\ taskCreator = EmptyTable
    /\ everCompleted = {}
    /\ total \in 0..MaxCount
    /\ done \in 0..total
    /\ rate = -1

NextPct == ShowRate

SpecPct == InitPct /\ [][NextPct]_vars

\* C4: the percentage shown is the floor of 100 * k / n for counts 0 <= k <= n
\* with n > 0, and 0 when n = 0.
C4_FloorPercentage ==
    rate # -1 => rate = (IF total > 0 THEN (100 * done) \div total ELSE 0)

=============================================================================
